---- MODULE Spec2Model ----
(***************************************************************************)
(* Model of the Tic Tac Toe backend, src/tic_tac_toe_backend/src/api/main.py *)
(* The registry GAMES, the evaluator (check_winner, update_status) and the *)
(* three handlers create_game, get_game_state and make_move.               *)
(***************************************************************************)
EXTENDS Integers, Sequences, FiniteSets, TLC

VARIABLES
    GAMES,      \* _GAMES: game id -> _Game
    request,    \* the request handled last, when requests run one at a time
    response,   \* the answer to it
    threads,    \* the worker threads running handlers at the same time
    started,    \* requests accepted by the worker threads so far
    probe,      \* a board handed to the evaluator, and its verdict
    issued,     \* history: the ids create_game has returned
    held        \* history: a GameState a caller got earlier and still holds

vars == <<GAMES, request, response, threads, started, probe, issued, held>>

\* ---------------------------------------------------------------- bounds
\* Games that create_game may add to the registry in Spec.
MaxGames == 2
\* Marks on all boards together in Spec (SpecGame plays one game to its end).
MaxMarks == 2
\* How far outside 0..8 a submitted position may lie.
PosSlack == 1
\* Requests the worker threads accept in SpecThreads.
MaxRequests == 3

\* ------------------------------------------------------------ data model
\* uuid4 values; one more than can be created, so an unknown id always exists.
GameIds == 1..(MaxGames + 1)

Cells == 0..8

\* Integers a client may submit as MoveRequest.position.
PositionInputs == (0 - PosSlack)..(8 + PosSlack)

Marks == {"", "X", "O"}

Boards == [Cells -> Marks]

\* _Game.__init__ with O to start.
NewGame_OStarts == [board |-> [c \in Cells |-> ""], next_player |-> "O", status |-> "IN_PROGRESS"]

\* _Game.__init__
NewGame == [board |-> [c \in Cells |-> ""], next_player |-> "X", status |-> "IN_PROGRESS"]

\* _Game.to_state: the board is copied, the two strings are read.
to_state(game) ==
    [status_code |-> 200, detail |-> "",
     board |-> game.board, nextPlayer |-> game.next_player, status |-> game.status]

\* The list to_state would hand out if it passed self.board itself.
list_alias(board) == [shared |-> TRUE, cells |-> board]

\* self.board.copy(): a list of its own, holding the cells as they are now.
list_copy(board) == [shared |-> FALSE, cells |-> board]

\* No answer yet.
NoResponse == [status_code |-> 0, detail |-> ""]

\* raise HTTPException(status_code, detail)
HTTPException(code, msg) ==
    [status_code |-> code, detail |-> msg]

\* FastAPI's answer when the body fails the MoveRequest model: the handler
\* is not called.
RequestValidationError ==
    [status_code |-> 422, detail |-> "RequestValidationError"]

\* CreateGameResponse(gameId=...), sent with status 201.
CreateGameResponse(id) ==
    [status_code |-> 201, detail |-> "", gameId |-> id]

\* ------------------------------------------------------------- evaluator
\* winning_lines without the diagonal 2-4-6.
winning_lines_NoAntiDiagonal ==
    << <<0, 1, 2>>, <<3, 4, 5>>, <<6, 7, 8>>,
       <<0, 3, 6>>, <<1, 4, 7>>, <<2, 5, 8>>,
       <<0, 4, 8>> >>

\* winning_lines without the column 0-3-6.
winning_lines_NoLeftColumn ==
    << <<0, 1, 2>>, <<3, 4, 5>>, <<6, 7, 8>>,
       <<1, 4, 7>>, <<2, 5, 8>>,
       <<0, 4, 8>>, <<2, 4, 6>> >>

winning_lines ==
    << <<0, 1, 2>>, <<3, 4, 5>>, <<6, 7, 8>>,
       <<0, 3, 6>>, <<1, 4, 7>>, <<2, 5, 8>>,
       <<0, 4, 8>>, <<2, 4, 6>> >>

\* The test of one line in _check_winner's loop.
LineComplete(board, line) ==
    /\ board[line[1]] # ""
    /\ board[line[1]] = board[line[2]]
    /\ board[line[2]] = board[line[3]]

RECURSIVE check_winner_from(_, _)
\* The loop of _check_winner from line i on: the first complete line decides.
check_winner_from(board, i) ==
    IF i > Len(winning_lines) THEN "None"
    ELSE IF LineComplete(board, winning_lines[i]) THEN board[winning_lines[i][1]]
    ELSE check_winner_from(board, i + 1)

\* _check_winner blind to the lines O completes.
check_winner_XOnly(board) ==
    LET w == check_winner_from(board, 1) IN IF w = "O" THEN "None" ELSE w

check_winner(board) == check_winner_from(board, 1)

\* status_of with the full-board test made before the winner test.
status_of_DrawFirst(board) ==
    LET winner == check_winner(board) IN
    IF \A c \in Cells : board[c] \in {"X", "O"} THEN "DRAW"
    ELSE IF winner = "X" THEN "X_WON"
    ELSE IF winner = "O" THEN "O_WON"
    ELSE "IN_PROGRESS"

\* status_of without the draw branch.
status_of_NoDraw(board) ==
    LET winner == check_winner(board) IN
    IF winner = "X" THEN "X_WON"
    ELSE IF winner = "O" THEN "O_WON"
    ELSE "IN_PROGRESS"

\* The status _update_status stores for a board.
status_of(board) ==
    LET winner == check_winner(board) IN
    IF winner = "X" THEN "X_WON"
    ELSE IF winner = "O" THEN "O_WON"
    ELSE IF \A c \in Cells : board[c] \in {"X", "O"} THEN "DRAW"
    ELSE "IN_PROGRESS"

update_status(game) == [game EXCEPT !.status = status_of(game.board)]

\* -------------------------------------------------------------- registry
\* Put with every entry made the one stored object.
Put_SharedGame(games, id, game) ==
    [i \in (DOMAIN games) \cup {id} |-> game]

\* Put into a new dict that holds the stored entry alone.
Put_Replace(games, id, game) ==
    [i \in {id} |-> game]

\* _GAMES[id] = game, and the in-place update of the game stored under id.
Put(games, id, game) ==
    [i \in (DOMAIN games) \cup {id} |-> IF i = id THEN game ELSE games[i]]

\* The MoveRequest model: position: int, ge=0, le=8.
MoveRequestValid(pos) == pos >= 0 /\ pos <= 8

\* The next_player flip of make_move.
Flip(p) == IF p = "X" THEN "O" ELSE "X"

\* PlaceMark with the flip done on every move, finished or not.
PlaceMark_AlwaysFlip(game, pos) ==
    LET placed == [game EXCEPT !.board[pos] = game.next_player]
        judged == update_status(placed)
    IN  [judged EXCEPT !.next_player = Flip(judged.next_player)]

\* PlaceMark with the flip done before the mark is written.
PlaceMark_FlipFirst(game, pos) ==
    LET flipped == [game EXCEPT !.next_player = Flip(game.next_player)]
        placed == [flipped EXCEPT !.board[pos] = flipped.next_player]
    IN  update_status(placed)

\* PlaceMark with the status evaluated before the mark is written.
PlaceMark_StaleStatus(game, pos) ==
    LET symbol == game.next_player
        judged == update_status(game)
        placed == [judged EXCEPT !.board[pos] = symbol]
    IN  IF placed.status = "IN_PROGRESS"
        THEN [placed EXCEPT !.next_player = Flip(placed.next_player)]
        ELSE placed

\* The mutation of make_move once every check has passed.
PlaceMark(game, pos) ==
    LET symbol == game.next_player
        placed == [game EXCEPT !.board[pos] = symbol]
        judged == update_status(placed)
    IN  IF judged.status = "IN_PROGRESS"
        THEN [judged EXCEPT !.next_player = Flip(judged.next_player)]
        ELSE judged

\* Rejection without the finished check.
Rejection_NoFinishedCheck(games, gameId, pos) ==
    IF gameId \notin DOMAIN games
    THEN HTTPException(404, "Game not found")
    ELSE IF ~(0 <= pos /\ pos <= 8)
    THEN HTTPException(400, "Position must be between 0 and 8")
    ELSE IF games[gameId].board[pos] \in {"X", "O"}
    THEN HTTPException(400, "Cell is already occupied")
    ELSE NoResponse

\* Rejection without the occupied check.
Rejection_NoOccupiedCheck(games, gameId, pos) ==
    IF gameId \notin DOMAIN games
    THEN HTTPException(404, "Game not found")
    ELSE IF games[gameId].status # "IN_PROGRESS"
    THEN HTTPException(400, "Game is already finished")
    ELSE IF ~(0 <= pos /\ pos <= 8)
    THEN HTTPException(400, "Position must be between 0 and 8")
    ELSE NoResponse

\* The checks of make_move, in the handler's order: the exception the
\* first failing one raises, or NoResponse when all pass.
Rejection(games, gameId, pos) ==
    IF gameId \notin DOMAIN games
    THEN HTTPException(404, "Game not found")
    ELSE IF games[gameId].status # "IN_PROGRESS"
    THEN HTTPException(400, "Game is already finished")
    ELSE IF ~(0 <= pos /\ pos <= 8)
    THEN HTTPException(400, "Position must be between 0 and 8")
    ELSE IF games[gameId].board[pos] \in {"X", "O"}
    THEN HTTPException(400, "Cell is already occupied")
    ELSE NoResponse

\* One whole make_move request: [games |-> registry after, response |-> answer].
\* FastAPI validates the body against MoveRequest before it calls the handler.
make_move(games, gameId, pos) ==
    IF ~MoveRequestValid(pos)
    THEN [games |-> games, response |-> RequestValidationError]
    ELSE LET err == Rejection(games, gameId, pos) IN
         IF err # NoResponse
         THEN [games |-> games, response |-> err]
         ELSE LET game == PlaceMark(games[gameId], pos)
              IN  [games |-> Put(games, gameId, game), response |-> to_state(game)]

\* One whole get_game_state request.
get_game_state(games, gameId) ==
    IF gameId \notin DOMAIN games
    THEN HTTPException(404, "Game not found")
    ELSE to_state(games[gameId])

\* --------------------------------------------------------------- actions
NoRequest == [op |-> "none", gameId |-> 0]

Threads == {"t1", "t2"}

\* A worker thread with no request yet.
IdleThread ==
    [pc |-> "idle", op |-> "none", gameId |-> 0, pos |-> 0,
     symbol |-> "", winner |-> "None",
     out |-> to_state(NewGame), response |-> NoResponse,
     base |-> << >>, overlapped |-> 0, second |-> FALSE]

NoProbe == [board |-> NewGame.board, status |-> "none"]

\* No GameState held yet.
NoHeld ==
    [gameId |-> 0, board |-> list_copy([c \in Cells |-> ""]),
     nextPlayer |-> "X", status |-> "none"]

Init ==
    /\ GAMES = << >>
    /\ request = NoRequest
    /\ response = NoResponse
    /\ threads = [t \in Threads |-> IdleThread]
    /\ started = 0
    /\ probe = NoProbe
    /\ issued = {}
    /\ held = NoHeld

\* str(uuid.uuid4()): a fresh id. Ids are opaque to every handler, so the
\* k-th fresh id is named k.
uuid4(games) == Cardinality(DOMAIN games) + 1

CreateGame(id) ==
    /\ id = uuid4(GAMES)
    /\ GAMES' = Put(GAMES, id, NewGame)
    /\ request' = [op |-> "create_game", gameId |-> id]
    /\ response' = CreateGameResponse(id)
    /\ issued' = issued \cup {id}
    /\ UNCHANGED <<threads, started, probe, held>>

GetGameState(id) ==
    /\ request' = [op |-> "get_game_state", gameId |-> id]
    /\ response' = get_game_state(GAMES, id)
    /\ UNCHANGED <<GAMES, threads, started, probe, issued, held>>

MakeMove(id, pos) ==
    LET r == make_move(GAMES, id, pos) IN
    /\ request' = [op |-> "make_move", gameId |-> id]
    /\ GAMES' = r.games
    /\ response' = r.response
    /\ UNCHANGED <<threads, started, probe, issued, held>>

\* get_game_state, with the caller keeping the GameState that to_state built.
GetGameStateKept(id) ==
    /\ request' = [op |-> "get_game_state", gameId |-> id]
    /\ response' = get_game_state(GAMES, id)
    /\ held' = IF id \in DOMAIN GAMES
               THEN [gameId |-> id, board |-> list_copy(GAMES[id].board),
                     nextPlayer |-> GAMES[id].next_player, status |-> GAMES[id].status]
               ELSE held
    /\ UNCHANGED <<GAMES, threads, started, probe, issued>>

\* The marks on all boards of the registry.
TotalMarks(games) ==
    Cardinality({ic \in (DOMAIN games) \X Cells : games[ic[1]].board[ic[2]] # ""})

Next ==
    \/ \E id \in GameIds : Cardinality(DOMAIN GAMES) < MaxGames /\ CreateGame(id)
    \/ \E id \in GameIds : GetGameState(id)
    \/ LET full == TotalMarks(GAMES) >= MaxMarks
       IN  \E id \in GameIds, pos \in PositionInputs :
               MakeMove(id, pos) /\ (full => GAMES' = GAMES)

Spec == Init /\ [][Next]_vars

\* One game played to its end: a single create_game, then any requests.
NextGame ==
    \/ \E id \in GameIds : DOMAIN GAMES = {} /\ CreateGame(id)
    \/ \E id \in GameIds : GetGameState(id)
    \/ \E id \in GameIds, pos \in PositionInputs : MakeMove(id, pos)

SpecGame == Init /\ [][NextGame]_vars

\* One game and the move requests made on it with positions 0..8: moves
\* that succeed and moves refused as occupied or finished.
NextPlay ==
    \/ \E id \in GameIds : DOMAIN GAMES = {} /\ CreateGame(id)
    \/ \E id \in DOMAIN GAMES, pos \in Cells : MakeMove(id, pos)

\* A make_move request that passes every check.
LegalMove ==
    \E id \in DOMAIN GAMES, pos \in Cells :
        MakeMove(id, pos) /\ response'.status_code = 200

\* The game played by clients that keep submitting legal moves for as
\* long as one exists; any number of refused moves may come in between.
SpecGameFair == Init /\ [][NextPlay]_vars /\ WF_vars(LegalMove)

\* One game whose states callers fetch and keep while it is played.
NextSnapshot ==
    \/ \E id \in GameIds : DOMAIN GAMES = {} /\ CreateGame(id)
    \/ \E id \in GameIds : GetGameStateKept(id)
    \/ LET full == TotalMarks(GAMES) >= MaxMarks
       IN  \E id \in GameIds, pos \in PositionInputs :
               MakeMove(id, pos) /\ (full => GAMES' = GAMES)

SpecSnapshot == Init /\ [][NextSnapshot]_vars

\* ------------------------------------------------- the evaluator alone
\* Any of the 3^9 boards may be handed to the evaluator.
InitEval ==
    /\ GAMES = << >>
    /\ request = NoRequest
    /\ response = NoResponse
    /\ threads = [t \in Threads |-> IdleThread]
    /\ started = 0
    /\ probe \in {[board |-> b, status |-> "none"] : b \in Boards}
    /\ issued = {}
    /\ held = NoHeld

\* _update_status on a game holding the probed board.
Evaluate ==
    /\ probe.status = "none"
    /\ probe' = [probe EXCEPT
                    !.status = update_status([NewGame EXCEPT !.board = probe.board]).status]
    /\ UNCHANGED <<GAMES, request, response, threads, started, issued, held>>

SpecEval == InitEval /\ [][Evaluate]_vars

\* ------------------------------------------- handlers on worker threads
\* The handlers are plain def functions, which FastAPI runs on a pool of
\* worker threads; nothing in main.py takes a lock, so the threads
\* interleave between any two accesses to a game. One step below is one
\* access to shared data (_check_winner's reads of the board are taken as
\* one step, and so is each list copy).

InFlight(t) == threads[t].pc # "idle"

Bump(n) == IF n >= 2 THEN 2 ELSE n + 1

\* A worker thread takes a request. FastAPI validates a make_move body
\* against MoveRequest first and answers 422 without calling the handler.
\* base, overlapped and second are history: the registry at this moment,
\* and which requests run while this one does.
Accept(t, op, id, pos) ==
    /\ ~InFlight(t)
    /\ started < MaxRequests
    /\ started' = started + 1
    /\ LET others == {u \in Threads \ {t} : InFlight(u)}
           rejected == op = "make_move" /\ ~MoveRequestValid(pos)
           mine == [IdleThread EXCEPT
                       !.op = op, !.gameId = id, !.pos = pos,
                       !.base = GAMES,
                       !.overlapped = IF rejected THEN 0
                                      ELSE IF Cardinality(others) >= 2 THEN 2
                                      ELSE Cardinality(others),
                       !.second = ~rejected /\ others # {},
                       !.pc = IF rejected THEN "idle"
                              ELSE IF op = "create_game" THEN "c_store"
                              ELSE IF op = "get_game_state" THEN "g_lookup"
                              ELSE "m_lookup",
                       !.response = IF rejected THEN RequestValidationError ELSE NoResponse]
       IN  threads' = [u \in Threads |->
                          IF u = t THEN mine
                          ELSE IF u \in others /\ ~rejected
                               THEN [threads[u] EXCEPT !.overlapped = Bump(@)]
                               ELSE threads[u]]
    /\ UNCHANGED <<GAMES, request, response, probe, issued, held>>

\* The handler returns or raises: the thread is free again.
Respond(t, resp) ==
    threads' = [threads EXCEPT ![t].pc = "idle", ![t].response = resp]

Goto(t, label) ==
    threads' = [threads EXCEPT ![t].pc = label]

\* create_game: _GAMES[game_id] = _Game()
TCreate(t) ==
    /\ threads[t].pc = "c_store"
    /\ LET id == uuid4(GAMES) IN
        /\ GAMES' = Put(GAMES, id, NewGame)
        /\ Respond(t, CreateGameResponse(id))
        /\ issued' = issued \cup {id}
    /\ UNCHANGED <<request, response, started, probe, held>>

\* game = _GAMES.get(gameId); if not game: raise 404 (both handlers)
TLookup(t) ==
    /\ threads[t].pc \in {"g_lookup", "m_lookup"}
    /\ IF threads[t].gameId \notin DOMAIN GAMES
       THEN Respond(t, HTTPException(404, "Game not found"))
       ELSE Goto(t, IF threads[t].pc = "g_lookup" THEN "s_board" ELSE "m_status")
    /\ UNCHANGED <<GAMES, request, response, started, probe, issued, held>>

\* if game.status != "IN_PROGRESS": raise 400
TCheckStatus(t) ==
    /\ threads[t].pc = "m_status"
    /\ IF GAMES[threads[t].gameId].status # "IN_PROGRESS"
       THEN Respond(t, HTTPException(400, "Game is already finished"))
       ELSE Goto(t, "m_cell")
    /\ UNCHANGED <<GAMES, request, response, started, probe, issued, held>>

\* the position check, then: if game.board[pos] in ("X", "O"): raise 400
TCheckCell(t) ==
    /\ threads[t].pc = "m_cell"
    /\ IF ~(0 <= threads[t].pos /\ threads[t].pos <= 8)
       THEN Respond(t, HTTPException(400, "Position must be between 0 and 8"))
       ELSE IF GAMES[threads[t].gameId].board[threads[t].pos] \in {"X", "O"}
       THEN Respond(t, HTTPException(400, "Cell is already occupied"))
       ELSE Goto(t, "m_symbol")
    /\ UNCHANGED <<GAMES, request, response, started, probe, issued, held>>

\* symbol = game.next_player
TReadSymbol(t) ==
    /\ threads[t].pc = "m_symbol"
    /\ threads' = [threads EXCEPT ![t].pc = "m_write",
                                  ![t].symbol = GAMES[threads[t].gameId].next_player]
    /\ UNCHANGED <<GAMES, request, response, started, probe, issued, held>>

\* game.board[pos] = symbol
TWriteCell(t) ==
    /\ threads[t].pc = "m_write"
    /\ GAMES' = [GAMES EXCEPT ![threads[t].gameId].board[threads[t].pos] = threads[t].symbol]
    /\ Goto(t, "m_winner")
    /\ UNCHANGED <<request, response, started, probe, issued, held>>

\* winner = _check_winner(game.board)
TCheckWinner(t) ==
    /\ threads[t].pc = "m_winner"
    /\ threads' = [threads EXCEPT ![t].pc = "m_setstatus",
                                  ![t].winner = check_winner(GAMES[threads[t].gameId].board)]
    /\ UNCHANGED <<GAMES, request, response, started, probe, issued, held>>

\* the if/elif chain of _update_status on the winner found: game.status = ...
TSetStatus(t) ==
    /\ threads[t].pc = "m_setstatus"
    /\ LET g == threads[t].gameId
           w == threads[t].winner
           st == IF w = "X" THEN "X_WON"
                 ELSE IF w = "O" THEN "O_WON"
                 ELSE IF \A c \in Cells : GAMES[g].board[c] \in {"X", "O"} THEN "DRAW"
                 ELSE "IN_PROGRESS"
       IN  GAMES' = [GAMES EXCEPT ![g].status = st]
    /\ Goto(t, "m_flip")
    /\ UNCHANGED <<request, response, started, probe, issued, held>>

\* if game.status == "IN_PROGRESS": game.next_player = the other player
TFlip(t) ==
    /\ threads[t].pc = "m_flip"
    /\ LET g == threads[t].gameId IN
       IF GAMES[g].status = "IN_PROGRESS"
       THEN GAMES' = [GAMES EXCEPT ![g].next_player = Flip(@)]
       ELSE UNCHANGED GAMES
    /\ Goto(t, "s_board")
    /\ UNCHANGED <<request, response, started, probe, issued, held>>

\* to_state, first argument: self.board.copy()
TCopyBoard(t) ==
    /\ threads[t].pc = "s_board"
    /\ threads' = [threads EXCEPT ![t].pc = "s_next",
                                  ![t].out.board = GAMES[threads[t].gameId].board]
    /\ UNCHANGED <<GAMES, request, response, started, probe, issued, held>>

\* to_state, second argument: self.next_player
TReadNext(t) ==
    /\ threads[t].pc = "s_next"
    /\ threads' = [threads EXCEPT ![t].pc = "s_status",
                                  ![t].out.nextPlayer = GAMES[threads[t].gameId].next_player]
    /\ UNCHANGED <<GAMES, request, response, started, probe, issued, held>>

\* to_state, third argument: self.status; the handler returns the GameState
TReadStatus(t) ==
    /\ threads[t].pc = "s_status"
    /\ Respond(t, [threads[t].out EXCEPT !.status = GAMES[threads[t].gameId].status])
    /\ UNCHANGED <<GAMES, request, response, started, probe, issued, held>>

NextThreads ==
    \/ \E t \in Threads : Accept(t, "create_game", 0, 0)
    \/ \E t \in Threads, id \in GameIds : Accept(t, "get_game_state", id, 0)
    \/ \E t \in Threads, id \in GameIds, pos \in PositionInputs : Accept(t, "make_move", id, pos)
    \/ \E t \in Threads : TCreate(t)
    \/ \E t \in Threads : TLookup(t)
    \/ \E t \in Threads : TCheckStatus(t)
    \/ \E t \in Threads : TCheckCell(t)
    \/ \E t \in Threads : TReadSymbol(t)
    \/ \E t \in Threads : TWriteCell(t)
    \/ \E t \in Threads : TCheckWinner(t)
    \/ \E t \in Threads : TSetStatus(t)
    \/ \E t \in Threads : TFlip(t)
    \/ \E t \in Threads : TCopyBoard(t)
    \/ \E t \in Threads : TReadNext(t)
    \/ \E t \in Threads : TReadStatus(t)

SpecThreads == Init /\ [][NextThreads]_vars

\* ================================================================ claims
Terminal == {"X_WON", "O_WON", "DRAW"}

GameNotFound == HTTPException(404, "Game not found")
GameFinished == HTTPException(400, "Game is already finished")
InvalidPosition == HTTPException(400, "Position must be between 0 and 8")
CellOccupied == HTTPException(400, "Cell is already occupied")

\* Two make_move requests by different threads on one game that ran during
\* each other and during no third request, both answered: first started the
\* earlier, and its base is the registry before both.
ConcurrentMoves(first, second) ==
    /\ first # second
    /\ ~InFlight(first) /\ ~InFlight(second)
    /\ threads[first].op = "make_move" /\ threads[second].op = "make_move"
    /\ threads[first].response # NoResponse /\ threads[second].response # NoResponse
    /\ threads[first].gameId = threads[second].gameId
    /\ threads[first].overlapped = 1 /\ threads[second].overlapped = 1
    /\ ~threads[first].second /\ threads[second].second

\* The registry and the two answers are those of running a's request, then
\* b's, one after the other from the registry games.
SerialOutcome(games, a, b) ==
    LET ra == make_move(games, threads[a].gameId, threads[a].pos)
        rb == make_move(ra.games, threads[b].gameId, threads[b].pos)
    IN  /\ GAMES = rb.games
        /\ threads[a].response = ra.response
        /\ threads[b].response = rb.response

\* C1: two make_move requests that run at the same time on one game leave
\* the game, and get the two answers, of one of the two orders in which the
\* requests could have run one after the other.
C1_ConcurrentMovesSerializable ==
    \A a, b \in Threads :
        ConcurrentMoves(a, b) =>
            \/ SerialOutcome(threads[a].base, a, b)
            \/ SerialOutcome(threads[a].base, b, a)

\* C2: a move request on a finished game is answered "Game is already
\* finished" whatever integer position it submits, in 0..8 or outside.
C2_FinishedDecidesFirst ==
    [][\A id \in GameIds, pos \in PositionInputs :
          (/\ MakeMove(id, pos)
           /\ id \in DOMAIN GAMES
           /\ GAMES[id].status # "IN_PROGRESS")
          => response' = GameFinished]_vars

\* C3: once a game's status is terminal, every make_move on it at a position
\* 0..8 is answered "Game is already finished", and no step changes the game.
C3_TerminalAbsorbing ==
    [][\A id \in DOMAIN GAMES :
          GAMES[id].status \in Terminal =>
              /\ id \in DOMAIN GAMES'
              /\ GAMES'[id] = GAMES[id]
              /\ \A pos \in Cells : MakeMove(id, pos) => response' = GameFinished]_vars

\* A finished game with an empty cell has just refused a move.
C3_Witness ==
    \E id \in DOMAIN GAMES :
        /\ GAMES[id].status = "O_WON"
        /\ \E c \in Cells : GAMES[id].board[c] = ""
        /\ request = [op |-> "make_move", gameId |-> id]
        /\ response = GameFinished

\* C4: a make_move that fails leaves the registry as it was, and a move onto
\* a marked cell of a game in progress fails with "Cell is already occupied".
C4_FailureChangesNothing ==
    [][request'.op = "make_move" =>
          /\ response'.status_code # 200 => GAMES' = GAMES
          /\ \A id \in DOMAIN GAMES, pos \in Cells :
                (/\ id = request'.gameId
                 /\ GAMES[id].status = "IN_PROGRESS"
                 /\ GAMES[id].board[pos] \in {"X", "O"}
                 /\ MakeMove(id, pos))
                => (response' = CellOccupied /\ GAMES' = GAMES)]_vars

\* A game in progress has just refused a move onto a marked cell.
C4_Witness ==
    \E id \in DOMAIN GAMES :
        /\ GAMES[id].status = "IN_PROGRESS"
        /\ request = [op |-> "make_move", gameId |-> id]
        /\ response = CellOccupied

\* C5: a move request on a game in progress with a position outside 0..8 is
\* answered 400 "Position must be between 0 and 8", the game unchanged.
C5_OutOfRangeIsInvalidPosition ==
    [][\A id \in GameIds, pos \in PositionInputs :
          (/\ MakeMove(id, pos)
           /\ id \in DOMAIN GAMES
           /\ GAMES[id].status = "IN_PROGRESS"
           /\ pos \notin Cells)
          => (response' = InvalidPosition /\ GAMES' = GAMES)]_vars

\* C6: a successful make_move at position p writes the mark of the player
\* whose turn it was into the empty cell p, leaves the other eight cells as
\* they were, and answers with the game's state after the move.
C6_SuccessfulMoveEffect ==
    [][(request'.op = "make_move" /\ response'.status_code = 200) =>
          \A id \in GameIds, pos \in PositionInputs :
              (id = request'.gameId /\ MakeMove(id, pos)) =>
                  /\ id \in DOMAIN GAMES /\ id \in DOMAIN GAMES'
                  /\ pos \in Cells
                  /\ GAMES'[id].board[pos] = GAMES[id].next_player
                  /\ \A c \in Cells \ {pos} : GAMES'[id].board[c] = GAMES[id].board[c]
                  /\ response'.board = GAMES'[id].board
                  /\ response'.nextPlayer = GAMES'[id].next_player
                  /\ response'.status = GAMES'[id].status]_vars

\* A move has just succeeded on a game that already held marks.
C6_Witness ==
    /\ request.op = "make_move"
    /\ response.status_code = 200
    /\ Cardinality({c \in Cells : response.board[c] # ""}) >= 3

\* C7: a successful make_move either leaves the game in progress with the
\* turn passed to the other player, or finishes it with the turn unchanged.
C7_FlipXorTerminal ==
    [][(request'.op = "make_move" /\ response'.status_code = 200) =>
          LET before == GAMES[request'.gameId]
              after == GAMES'[request'.gameId]
          IN  \/ /\ after.status = "IN_PROGRESS"
                 /\ after.next_player \in {"X", "O"}
                 /\ after.next_player # before.next_player
              \/ /\ after.status \in Terminal
                 /\ after.next_player = before.next_player]_vars

\* A move has just finished a game.
C7_Witness ==
    /\ request.op = "make_move"
    /\ response.status_code = 200
    /\ response.status \in Terminal

\* The eight lines of the board: rows, columns, diagonals.
RefLine(i) ==
    IF i <= 3 THEN {3 * (i - 1), 3 * (i - 1) + 1, 3 * (i - 1) + 2}
    ELSE IF i <= 6 THEN {i - 4, i - 1, i + 2}
    ELSE IF i = 7 THEN {0, 4, 8}
    ELSE {2, 4, 6}

Holds(board, mark, i) == \A c \in RefLine(i) : board[c] = mark

HoldsLine(board, mark) == \E i \in 1..8 : Holds(board, mark, i)

\* The reference rule: X before O, then draw on a full board.
ReferenceStatus(board) ==
    IF HoldsLine(board, "X") THEN "X_WON"
    ELSE IF HoldsLine(board, "O") THEN "O_WON"
    ELSE IF \A c \in Cells : board[c] # "" THEN "DRAW"
    ELSE "IN_PROGRESS"

\* The win of whoever holds the first complete line, rows first, then
\* columns, then the two diagonals.
FirstLineStatus(board) ==
    LET i == CHOOSE i \in 1..8 :
                 /\ Holds(board, "X", i) \/ Holds(board, "O", i)
                 /\ \A j \in 1..(i - 1) : ~(Holds(board, "X", j) \/ Holds(board, "O", j))
    IN  IF Holds(board, "X", i) THEN "X_WON" ELSE "O_WON"

\* C8 as stated: on every one of the 3^9 boards the evaluator gives the
\* status of the reference rule.
C8_EvaluatorIsReference ==
    probe.status # "none" => probe.status = ReferenceStatus(probe.board)

\* C8 amended: the evaluator gives the status of the reference rule on every
\* board that does not hold a line of X together with a line of O; on a
\* board that holds both, the holder of the first complete line wins.
C8_EvaluatorFirstLine ==
    probe.status # "none" =>
        IF HoldsLine(probe.board, "X") /\ HoldsLine(probe.board, "O")
        THEN probe.status = FirstLineStatus(probe.board)
        ELSE probe.status = ReferenceStatus(probe.board)

\* The evaluator has judged a board on which both X and O hold a line.
C8_Witness ==
    /\ probe.status = "O_WON"
    /\ HoldsLine(probe.board, "X")
    /\ HoldsLine(probe.board, "O")

\* C9: a request addressed to one game, and every create_game, leaves every
\* other game of the registry in place with its board, next player and
\* status unchanged.
C9_Isolation ==
    [][\A b \in DOMAIN GAMES :
          (request'.op = "create_game" \/ request'.gameId # b) =>
              /\ b \in DOMAIN GAMES'
              /\ GAMES'[b] = GAMES[b]]_vars

\* A move has just succeeded on one game while another game holds a mark.
C9_Witness ==
    /\ request.op = "make_move"
    /\ response.status_code = 200
    /\ \E b \in DOMAIN GAMES :
          /\ b # request.gameId
          /\ \E c \in Cells : GAMES[b].board[c] # ""

\* C10: a get_game_state, or a make_move whose body passes the MoveRequest
\* model, is answered "Game not found" exactly when its id was never
\* returned by create_game; returned ids are never forgotten.
C10_NotFoundIffNeverIssued ==
    [][/\ issued \subseteq issued'
       /\ (/\ request'.op \in {"get_game_state", "make_move"}
           /\ response' # RequestValidationError)
          => (response' = GameNotFound <=> request'.gameId \notin issued)]_vars

\* With games in the registry, a move on an id never returned has just been
\* answered "Game not found".
C10_Witness ==
    /\ Cardinality(issued) >= 2
    /\ request.op = "make_move"
    /\ request.gameId \notin issued
    /\ response = GameNotFound

\* C11: the game a create_game has just returned has nine empty cells, X to
\* move and status IN_PROGRESS, whatever else the registry holds.
C11_CreatedGameIsFresh ==
    request.op = "create_game" =>
        /\ response.status_code = 201
        /\ response.gameId \in DOMAIN GAMES
        /\ \A c \in Cells : GAMES[response.gameId].board[c] = ""
        /\ GAMES[response.gameId].next_player = "X"
        /\ GAMES[response.gameId].status = "IN_PROGRESS"

\* A game has just been created beside a game that holds marks.
C11_Witness ==
    /\ request.op = "create_game"
    /\ \E b \in DOMAIN GAMES :
          /\ b # response.gameId
          /\ \E c \in Cells : GAMES[b].board[c] # ""

\* The cells a caller sees in the board list of the GameState it holds.
HeldBoard ==
    IF held.board.shared THEN GAMES[held.gameId].board ELSE held.board.cells

\* C12: get_game_state changes neither a game nor the registry and answers
\* with the game's fields as they are; the GameState a caller holds keeps
\* its board, next player and status through every later request.
C12_ReadOnlySnapshot ==
    [][/\ request'.op = "get_game_state" =>
              /\ GAMES' = GAMES
              /\ issued' = issued
              /\ response'.status_code = 200 =>
                    /\ response'.board = GAMES[request'.gameId].board
                    /\ response'.nextPlayer = GAMES[request'.gameId].next_player
                    /\ response'.status = GAMES[request'.gameId].status
                    /\ HeldBoard' = GAMES[request'.gameId].board
       /\ (request'.op # "get_game_state" /\ held.status # "none") =>
              /\ HeldBoard' = HeldBoard
              /\ held'.nextPlayer = held.nextPlayer
              /\ held'.status = held.status]_vars

\* A move has just changed a game of which a caller holds an earlier state.
C12_Witness ==
    /\ held.status # "none"
    /\ request.op = "make_move"
    /\ response.status_code = 200
    /\ request.gameId = held.gameId
    /\ HeldBoard # GAMES[held.gameId].board

\* The scenario's moves, the marks they place, and the board it ends with.
ScenarioMoves == <<0, 1, 3, 2, 6>>

ScenarioMarks == <<"X", "O", "X", "O", "X">>

ScenarioFinal == <<"X", "O", "O", "X", "", "", "X", "", "">>

\* The board after the first k moves of the scenario.
ScenarioBoard(k) ==
    [c \in Cells |->
        IF \E i \in 1..k : ScenarioMoves[i] = c
        THEN ScenarioMarks[CHOOSE i \in 1..k : ScenarioMoves[i] = c]
        ELSE ""]

\* The six boards the scenario passes through, indexed by the moves made.
ScenarioBoards == [k \in 0..5 |-> ScenarioBoard(k)]

\* C13: on a fresh game the moves 0, 1, 3, 2, 6 each succeed, placing X, O,
\* X, O, X; the fifth leaves the board X O O / X - - / X - - with status
\* X_WON, and every further move is answered "Game is already finished".
C13_ColumnWinScenario ==
    [][\A id \in DOMAIN GAMES :
          /\ \A k \in 0..4 :
                (/\ request'.op = "make_move"
                 /\ GAMES[id].board = ScenarioBoards[k]
                 /\ MakeMove(id, ScenarioMoves[k + 1])) =>
                    /\ response'.status_code = 200
                    /\ GAMES'[id].board = ScenarioBoards[k + 1]
                    /\ GAMES'[id].board[ScenarioMoves[k + 1]] = ScenarioMarks[k + 1]
                    /\ response'.board = GAMES'[id].board
                    /\ IF k = 4
                       THEN /\ response'.status = "X_WON"
                            /\ \A c \in Cells : GAMES'[id].board[c] = ScenarioFinal[c + 1]
                       ELSE response'.status = "IN_PROGRESS"
          /\ (request'.op = "make_move" /\ GAMES[id].board = ScenarioBoards[5]) =>
                \A pos \in Cells :
                    MakeMove(id, pos) => (response' = GameFinished /\ GAMES' = GAMES)]_vars

\* The scenario's final board has just refused a further move.
C13_Witness ==
    \E id \in DOMAIN GAMES :
        /\ \A c \in Cells : GAMES[id].board[c] = ScenarioFinal[c + 1]
        /\ GAMES[id].status = "X_WON"
        /\ request = [op |-> "make_move", gameId |-> id]
        /\ response = GameFinished

\* C14: a game's status is DRAW exactly when all nine cells are marked and
\* neither X nor O holds one of the eight lines.
C14_DrawIffFullNoLine ==
    \A id \in DOMAIN GAMES :
        GAMES[id].status = "DRAW" <=>
            /\ \A c \in Cells : GAMES[id].board[c] # ""
            /\ ~HoldsLine(GAMES[id].board, "X")
            /\ ~HoldsLine(GAMES[id].board, "O")

\* A ninth move has just ended a game in a draw.
C14_Witness ==
    /\ request.op = "make_move"
    /\ response.status_code = 200
    /\ response.status = "DRAW"
    /\ \A c \in Cells : response.board[c] # ""

\* A get_game_state by thread g and a make_move by thread m on one game
\* of the registry, run during each other and during no third request,
\* both answered.
ConcurrentReadAndMove(g, m) ==
    /\ g # m
    /\ ~InFlight(g) /\ ~InFlight(m)
    /\ threads[g].op = "get_game_state" /\ threads[m].op = "make_move"
    /\ threads[g].response # NoResponse /\ threads[m].response # NoResponse
    /\ threads[g].gameId = threads[m].gameId
    /\ threads[g].overlapped = 1 /\ threads[m].overlapped = 1
    /\ threads[g].second # threads[m].second
    /\ threads[g].gameId \in DOMAIN (IF threads[g].second THEN threads[m].base ELSE threads[g].base)

\* C15: a get_game_state that runs at the same time as a make_move on the
\* same game answers with the game's whole state before the move or its
\* whole state after the move, never with a mixture of the two.
C15_NoTornRead ==
    \A g, m \in Threads :
        ConcurrentReadAndMove(g, m) =>
            LET base == IF threads[g].second THEN threads[m].base ELSE threads[g].base
                id == threads[m].gameId
                after == make_move(base, id, threads[m].pos).games
            IN  threads[g].response \in {to_state(base[id]), to_state(after[id])}

\* C16: between requests every game's stored status is the evaluator's
\* result on the game's current board, and a game's status changes only in
\* a make_move on that game that is answered 200.
C16_StatusDerivedFromBoard ==
    /\ [](\A id \in DOMAIN GAMES : GAMES[id].status = status_of(GAMES[id].board))
    /\ [][\A id \in DOMAIN GAMES :
              /\ id \in DOMAIN GAMES'
              /\ GAMES'[id].status # GAMES[id].status =>
                    /\ request' = [op |-> "make_move", gameId |-> id]
                    /\ response'.status_code = 200
                    /\ response'.status = GAMES'[id].status]_vars

\* A successful move has just changed a game's status.
C16_Witness ==
    /\ request.op = "make_move"
    /\ response.status_code = 200
    /\ request.gameId \in DOMAIN GAMES
    /\ GAMES[request.gameId].status \in Terminal
    /\ GAMES[request.gameId].status = status_of(GAMES[request.gameId].board)

\* C17: no board reached in play holds a complete line of X together with
\* a complete line of O, so on every such board the evaluator's scan of the
\* lines in order gives the status of the rule that checks X before O.
C17_NoDoubleWinner ==
    \A id \in DOMAIN GAMES :
        /\ ~(HoldsLine(GAMES[id].board, "X") /\ HoldsLine(GAMES[id].board, "O"))
        /\ status_of(GAMES[id].board) = ReferenceStatus(GAMES[id].board)
        /\ GAMES[id].status = ReferenceStatus(GAMES[id].board)

\* O has won on a board where X holds no line although X's marks come
\* first in the scan order.
C17_Witness ==
    \E id \in DOMAIN GAMES :
        /\ GAMES[id].status = "O_WON"
        /\ HoldsLine(GAMES[id].board, "O")
        /\ ~Holds(GAMES[id].board, "O", 1)
        /\ GAMES[id].board[0] = "X"

\* The cells of a board that hold a mark.
Count(board, mark) == Cardinality({c \in Cells : board[c] = mark})

\* C18: in every game X has as many marks as O or one more; while the game
\* is in progress X is to play exactly when the counts are equal and O
\* exactly when X has one more; so successful moves place X, O, X, O, ...
C18_TurnAlternation ==
    /\ [](\A id \in DOMAIN GAMES :
              LET d == Count(GAMES[id].board, "X") - Count(GAMES[id].board, "O") IN
              /\ d \in {0, 1}
              /\ GAMES[id].status = "IN_PROGRESS" =>
                    /\ GAMES[id].next_player = "X" <=> d = 0
                    /\ GAMES[id].next_player = "O" <=> d = 1)
    /\ [][\A id \in DOMAIN GAMES :
              (/\ request'.op = "make_move"
               /\ response'.status_code = 200
               /\ id = request'.gameId) =>
                  \E pos \in Cells :
                      /\ GAMES[id].board[pos] = ""
                      /\ MakeMove(id, pos)
                      /\ GAMES'[id].board[pos] =
                            IF Count(GAMES[id].board, "X") = Count(GAMES[id].board, "O")
                            THEN "X" ELSE "O"]_vars

\* O has just answered X's second mark: two marks each, X to play.
C18_Witness ==
    /\ request.op = "make_move"
    /\ response.status_code = 200
    /\ Count(response.board, "X") = 2
    /\ Count(response.board, "O") = 2
    /\ response.nextPlayer = "X"

\* C19: a won game names its winner as next player, a drawn game names X,
\* and the move that ends a game in a win places the winner's mark: no
\* move wins the game for the player who did not make it.
C19_WinnerIsLastMover ==
    /\ [](\A id \in DOMAIN GAMES :
              /\ GAMES[id].status = "X_WON" => GAMES[id].next_player = "X"
              /\ GAMES[id].status = "O_WON" => GAMES[id].next_player = "O"
              /\ GAMES[id].status = "DRAW" => GAMES[id].next_player = "X")
    /\ [][\A id \in DOMAIN GAMES :
              (/\ request'.op = "make_move"
               /\ response'.status_code = 200
               /\ id = request'.gameId
               /\ response'.status \in {"X_WON", "O_WON"}) =>
                  LET mover == GAMES[id].next_player IN
                  /\ response'.status = IF mover = "X" THEN "X_WON" ELSE "O_WON"
                  /\ \E pos \in Cells :
                        /\ GAMES[id].board[pos] = ""
                        /\ MakeMove(id, pos)
                        /\ GAMES'[id].board[pos] = mover]_vars

\* O has just won with its own move.
C19_Witness ==
    /\ request.op = "make_move"
    /\ response.status_code = 200
    /\ response.status = "O_WON"
    /\ response.nextPlayer = "O"
    /\ Count(response.board, "O") = Count(response.board, "X")

\* C20: a successful move fills exactly one empty cell and changes no
\* other; a game in progress has an empty cell and a move that succeeds; a
\* finished game holds between 5 and 9 marks; and when legal moves keep
\* being submitted every game comes to X_WON, O_WON or DRAW.
C20_GameTerminates ==
    /\ [](\A id \in DOMAIN GAMES :
              LET marks == Count(GAMES[id].board, "X") + Count(GAMES[id].board, "O") IN
              /\ GAMES[id].status = "IN_PROGRESS" =>
                    /\ \E c \in Cells : GAMES[id].board[c] = ""
                    /\ \E pos \in Cells : make_move(GAMES, id, pos).response.status_code = 200
              /\ GAMES[id].status \in Terminal => (5 <= marks /\ marks <= 9))
    /\ [][\A id \in DOMAIN GAMES :
              (/\ request'.op = "make_move"
               /\ response'.status_code = 200
               /\ id = request'.gameId) =>
                  \E pos \in Cells :
                      /\ GAMES[id].board[pos] = ""
                      /\ GAMES'[id].board[pos] \in {"X", "O"}
                      /\ \A c \in Cells \ {pos} : GAMES'[id].board[c] = GAMES[id].board[c]]_vars
    /\ (DOMAIN GAMES # {}) ~>
          (DOMAIN GAMES # {} /\ \A id \in DOMAIN GAMES : GAMES[id].status \in Terminal)

\* A game has just ended with its fifth mark, the earliest possible end.
C20_Witness ==
    /\ request.op = "make_move"
    /\ response.status_code = 200
    /\ response.status \in Terminal
    /\ Count(response.board, "X") + Count(response.board, "O") = 5

====
